---------------------------- MODULE Spec2Model ----------------------------
(***************************************************************************)
(* Model of the cemuhook DSU UDP server (class UdpServer) and of the       *)
(* AppServer that wires the controller list to it.                         *)
(*                                                                         *)
(* Buffers are sequences of bytes.  The source indexes buffers from 0,     *)
(* TLA+ sequences from 1: At(data, i) is the source's data[i], and Undef   *)
(* stands for JavaScript's undefined (an index outside the buffer).        *)
(***************************************************************************)
EXTENDS Integers, Sequences, FiniteSets, TLC

(***************************************************************************)
(* Bounds of the model.                                                    *)
(***************************************************************************)
\* controller handles the controller master can report
NumCtrl == 5
\* controller handles used while datagrams are exchanged
NumMsgCtrl == 2
\* entries the client registry may hold before the model stops registering
MaxClients == 2
\* sockets the server may create in one run
MaxSockets == 2
\* subscriptions AppServer may take on the controller list
MaxListSubs == 2
\* ticks the clock may advance
MaxTime == 3
\* controllers installed while reports are handled
MaxInstalled == 2
\* reports a controller emits while the datagrams sent are recorded
MaxReports == 2

(***************************************************************************)
(* Program constants.  models/ is not part of the sources at hand: the     *)
(* values are those of the DSU protocol the specification refers to.       *)
(***************************************************************************)
MaxProtocolVer == 1001
DSUC_VersionReq == 1048576
DSUS_VersionRsp == 1048576
DSUC_ListPorts == 1048577
DSUS_PortInfo == 1048577
DSUC_PadDataReq == 1048578
DSUS_PadDataRsp == 1048578
\* UdpServerDefaults.ClientTimeoutLimit, in ticks of the clock
ClientTimeoutLimit == 2
\* protocol version the server writes in every header it sends (literal 1001)
ReplyProtocolVer == 1001
\* this.controllers = new Array(4)
NumSlots == 4
\* private serverId: a random u32 fixed at construction
serverId == 305419896

Undef == -1
Slots == 0 .. (NumSlots - 1)
Ctrl == 1 .. NumCtrl
MsgCtrl == 1 .. NumMsgCtrl

(***************************************************************************)
(* Bytes, words and buffers.                                               *)
(***************************************************************************)
(* TLC's integers are 32-bit signed, so an unsigned 32-bit word is kept as  *)
(* its four bytes in little-endian order, the order of the wire.           *)
RECURSIVE XorBits(_, _, _)
XorBits(a, b, n) ==
    IF n = 0 THEN 0
    ELSE (((a % 2) + (b % 2)) % 2) + 2 * XorBits(a \div 2, b \div 2, n - 1)

\* the exclusive or of two bytes, tabulated
XorTable == [a \in 0 .. 255 |-> [b \in 0 .. 255 |-> XorBits(a, b, 8)]]

Xor8(a, b) == XorTable[a][b]

XorWord(v, w) ==
    << Xor8(v[1], w[1]), Xor8(v[2], w[2]), Xor8(v[3], w[3]), Xor8(v[4], w[4]) >>

\* one step of the reflected CRC-32 division: c >>> 1, xor 0xEDB88320 when
\* the bit shifted out is set
CrcStep(c) ==
    LET s == << (c[1] \div 2) + 128 * (c[2] % 2),
                (c[2] \div 2) + 128 * (c[3] % 2),
                (c[3] \div 2) + 128 * (c[4] % 2),
                c[4] \div 2 >>
    IN  IF c[1] % 2 = 1 THEN XorWord(s, << 32, 131, 184, 237 >>) ELSE s

RECURSIVE CrcShift(_, _)
CrcShift(c, k) == IF k = 0 THEN c ELSE CrcShift(CrcStep(c), k - 1)

CrcTable == [n \in 0 .. 255 |-> CrcShift(<< n, 0, 0, 0 >>, 8)]

\* the table-driven loop over the bytes from data[i] on (the accumulator is
\* inspected before the recursion so that TLC evaluates it at every byte)
RECURSIVE CrcFold(_, _, _)
CrcFold(data, i, crc) ==
    IF Len(crc) = 4 /\ i <= Len(data)
    THEN CrcFold(data, i + 1,
                 XorWord(CrcTable[Xor8(crc[1], data[i])],
                         << crc[2], crc[3], crc[4], 0 >>))
    ELSE crc

\* crc32 of the "crc" package: CRC-32 (IEEE 802.3) of the whole buffer
crc32(data) ==
    XorWord(CrcFold(data, 1, << 255, 255, 255, 255 >>), << 255, 255, 255, 255 >>)

charCode(character) ==
    CASE character = "D" -> 68
      [] character = "S" -> 83
      [] character = "U" -> 85
      [] character = "C" -> 67

\* data[i] of the source: undefined outside the buffer
At(data, i) == IF i >= 0 /\ i < Len(data) THEN data[i + 1] ELSE Undef

\* Buffer.readUIntXXLE throws a RangeError when the read leaves the buffer
CanRead(data, index, size) == index >= 0 /\ index + size <= Len(data)

readUInt16LE(data, index) == data[index + 1] + 256 * data[index + 2]

\* the four bytes of the word read, least significant first
readUInt32LE(data, index) ==
    << data[index + 1], data[index + 2], data[index + 3], data[index + 4] >>

\* a signed 32-bit read; the result fits TLC's integers
readInt32LE(data, index) ==
    data[index + 1] + 256 * data[index + 2] + 65536 * data[index + 3]
        + 16777216 * (IF data[index + 4] >= 128 THEN data[index + 4] - 256
                      ELSE data[index + 4])

U16LE(v) == << v % 256, (v \div 256) % 256 >>

U32LE(v) ==
    << v % 256, (v \div 256) % 256, (v \div 65536) % 256,
       (v \div 16777216) % 256 >>

RECURSIVE Log2(_)
Log2(v) == IF v < 2 THEN 0 ELSE 1 + Log2(v \div 2)

\* Buffer.writeFloatLE of an integer value below 2^24 in magnitude: sign,
\* biased exponent and 23-bit fraction of IEEE-754 single precision
F32LE(v) ==
    IF v = 0 THEN << 0, 0, 0, 0 >>
    ELSE LET a == IF v < 0 THEN 0 - v ELSE v
             e == Log2(a)
             fraction == (a - 2 ^ e) * 2 ^ (23 - e)
             biased == e + 127
         IN  << fraction % 256, (fraction \div 256) % 256,
                ((fraction \div 65536) % 128) + 128 * (biased % 2),
                (biased \div 2) + (IF v < 0 THEN 128 ELSE 0) >>

\* a flag stored in a byte
Flag(b) == IF b THEN 1 ELSE 0

\* a button stored as an analog value
Analog(b) == IF b THEN 255 ELSE 0

\* buffer with the bytes at [index, index + Len(bytes)) replaced (every
\* write of the model lies inside the buffer)
WriteAt(data, index, bytes) ==
    SubSeq(data, 1, index) \o bytes
        \o SubSeq(data, index + Len(bytes) + 1, Len(data))

Zeros(n) == [k \in 1 .. n |-> 0]

(***************************************************************************)
(* Strings are sequences of one-character strings.                         *)
(***************************************************************************)
HexDigits ==
    << "0", "1", "2", "3", "4", "5", "6", "7", "8", "9", "a", "b", "c", "d",
       "e", "f" >>

\* Number.prototype.toString(16) of a byte: no leading zero
toString16(b) ==
    IF b < 16 THEN << HexDigits[b + 1] >>
    ELSE << HexDigits[(b \div 16) + 1], HexDigits[(b % 16) + 1] >>

\* the value of a hexadecimal digit, Undef for any other character
DigitValue(ch) ==
    IF \E v \in 0 .. 15 : HexDigits[v + 1] = ch
    THEN CHOOSE v \in 0 .. 15 : HexDigits[v + 1] = ch
    ELSE Undef

\* parseInt(part, 16): the leading hexadecimal digits, Undef (NaN) if none
RECURSIVE parseInt16From(_, _, _)
parseInt16From(part, k, acc) ==
    IF k > Len(part) \/ DigitValue(part[k]) = Undef
    THEN (IF k = 1 THEN Undef ELSE acc)
    ELSE parseInt16From(part, k + 1, 16 * acc + DigitValue(part[k]))

parseInt16(part) == parseInt16From(part, 1, 0)

\* String.prototype.split(":")
RECURSIVE splitFrom(_, _, _)
splitFrom(str, k, part) ==
    IF k > Len(str) THEN << part >>
    ELSE IF str[k] = ":" THEN << part >> \o splitFrom(str, k + 1, << >>)
    ELSE splitFrom(str, k + 1, Append(part, str[k]))

split(str) == splitFrom(str, 1, << >>)

\* Array.prototype.join(":")
RECURSIVE join(_)
join(parts) ==
    IF Len(parts) = 0 THEN << >>
    ELSE IF Len(parts) = 1 THEN parts[1]
    ELSE parts[1] \o << ":" >> \o join(Tail(parts))

\* a number stored in a byte of a Buffer: NaN is stored as 0
ToByte(v) == IF v = Undef THEN 0 ELSE v % 256

(***************************************************************************)
(* Controllers.  The device classes are not among the sources at hand; a   *)
(* controller's metadata is the DualShockMeta of the specification, with   *)
(* padId the controller's own id.                                          *)
(***************************************************************************)
\* the "aa:bb:cc:dd:ee:ff" form of six bytes
CanonicalMac(bytes) ==
    join([k \in 1 .. 6 |->
            << HexDigits[(bytes[k] \div 16) + 1], HexDigits[(bytes[k] % 16) + 1] >>])

ControllerId(c) == (c - 1) % NumSlots

\* a macAddress that is null
NullString == << "null" >>

\* controller 2 has no MAC address
ControllerMac(c) ==
    IF c = 2 THEN NullString
    ELSE IF c = 3 THEN CanonicalMac(<< 0, 171, 16, 161, 255, c >>)
    ELSE CanonicalMac(<< 0, 15, 16, 161, 255, c >>)

ControllerMeta(c) ==
    [padId |-> ControllerId(c), state |-> 2, model |-> 2,
     connectionType |-> 1 + (c % 2), macAddress |-> ControllerMac(c),
     batteryStatus |-> 5, isActive |-> TRUE]

\* a getter that reports the metadata of a device that is not open
dualShockMetaOfClosed(c, open) == << ControllerMeta(c) >>

\* GenericController.dualShockMeta: << >> stands for null
dualShockMeta(c, open) == IF open[c] THEN << ControllerMeta(c) >> ELSE << >>

(***************************************************************************)
(* State.                                                                  *)
(*   socket       this.socket: 0 (null) or the socket it refers to         *)
(*   socks        every dgram socket the server created: its state and the *)
(*                number of "message" listeners bound to onMessage         *)
(*   microtasks   continuations waiting behind an await, oldest first      *)
(*   controllers  this.controllers: slot -> 0 (null) or a controller; the  *)
(*                slot's Subscription is live exactly while it is occupied *)
(*   isOpen       device.isOpen() of every controller                      *)
(*   listSubs     subscriptions of AppServer.start to onListChange         *)
(*   listed       controllers the controller master currently lists        *)
(*   clients      this.clients in insertion order: key object and times    *)
(*   now          Date.now(), in ticks                                     *)
(*   out          datagrams handed to socket.send by the latest handler    *)
(*   errors       values emitted on errorSubject by the latest handler     *)
(*   last         the latest call or event, its arguments and its result   *)
(*   addLog       the controllers passed to addController since            *)
(*                construction, oldest first, while nothing else has       *)
(*                touched the slot table and up to NumSlots + 1 calls;     *)
(*                << 0 >> afterwards                                       *)
(*   emitted      the reports each controller has emitted while the        *)
(*                datagrams sent are recorded: its next packet counter     *)
(*   delivered    the pad-data datagrams recorded, in the order of the     *)
(*                calls of socket.send: receiver, pad and packet counter   *)
(***************************************************************************)
VARIABLES socket, socks, microtasks, controllers, isOpen, listSubs, listed,
          clients, now, out, errors, last, addLog, emitted, delivered,
          released

vars == << socket, socks, microtasks, controllers, isOpen, listSubs, listed,
           clients, now, out, errors, last, addLog, emitted, delivered,
           released >>

reportVars == << emitted, delivered, released >>

clientVars == << clients, now >>

appVars == << listSubs, listed >>

lifecycleVars == << socket, socks, microtasks >>

NoCall == [op |-> "none"]

Init ==
    /\ socket = 0
    /\ socks = [s \in 1 .. MaxSockets |-> [state |-> "none", onMessage |-> 0,
                                           app |-> FALSE]]
    /\ microtasks = << >>
    /\ controllers = [i \in Slots |-> 0]
    /\ isOpen = [c \in Ctrl |-> FALSE]
    /\ listSubs = 0
    /\ listed = {}
    /\ clients = << >>
    /\ now = 0
    /\ out = << >>
    /\ errors = << >>
    /\ last = NoCall
    /\ addLog = << >>
    /\ emitted = [c \in Ctrl |-> 0]
    /\ delivered = << >>
    /\ released = {}

(***************************************************************************)
(* Controller slot table.                                                  *)
(***************************************************************************)
\* a scan that takes the highest null slot instead of the lowest
FirstNullFromTop(ctrls, i) ==
    IF \E j \in Slots : j >= i /\ ctrls[j] = 0
    THEN CHOOSE j \in Slots :
            /\ j >= i /\ ctrls[j] = 0
            /\ \A k \in Slots : k > j => ctrls[k] # 0
    ELSE NumSlots

\* the index the scan of addController stops at, NumSlots when none is null
RECURSIVE FirstNull(_, _)
FirstNull(ctrls, i) ==
    IF i >= NumSlots THEN NumSlots
    ELSE IF ctrls[i] = 0 THEN i
    ELSE FirstNull(ctrls, i + 1)

\* the slot table after addController(controller)
AddedTo(ctrls, controller) ==
    LET i == FirstNull(ctrls, 0)
    IN  IF i < NumSlots THEN [ctrls EXCEPT ![i] = controller] ELSE ctrls

\* the value addController(controller) returns
AddResult(ctrls) == FirstNull(ctrls, 0) < NumSlots

\* the arguments removeController is called with
ArgUndefined == [kind |-> "undefined", val |-> 0]
ArgNumber(n) == [kind |-> "number", val |-> n]
ArgObject(c) == [kind |-> "object", val |-> c]

\* the guard of the else-if branch; an object compares as NaN, so it fails
IndexAccepted(index) ==
    index.kind = "number" /\ index.val > 0 /\ index.val < NumSlots

\* removeController(index) for an index that is not undefined
RemovedAt(ctrls, index) ==
    IF IndexAccepted(index) /\ ctrls[index.val] # 0
    THEN [ctrls EXCEPT ![index.val] = 0]
    ELSE ctrls

\* the loop of the undefined branch: removeController(i) for i = from ..
RECURSIVE RemovedFrom(_, _)
RemovedFrom(ctrls, from) ==
    IF from >= NumSlots THEN ctrls
    ELSE RemovedFrom(RemovedAt(ctrls, ArgNumber(from)), from + 1)

\* the slot table after removeController(index)
Removed(ctrls, index) ==
    IF index.kind = "undefined" THEN RemovedFrom(ctrls, 0)
    ELSE RemovedAt(ctrls, index)

addController(c) ==
    /\ controllers' = AddedTo(controllers, c)
    /\ out' = << >>
    /\ errors' = << >>
    /\ last' = [op |-> "addController", controller |-> c,
                ret |-> AddResult(controllers)]
    /\ addLog' = IF addLog # << 0 >> /\ Len(addLog) <= NumSlots
                 THEN Append(addLog, c) ELSE << 0 >>
    /\ UNCHANGED << lifecycleVars, isOpen, appVars, clientVars >>
    /\ UNCHANGED reportVars

RemoveHandled(index) ==
    /\ controllers' = Removed(controllers, index)
    /\ out' = << >>
    /\ errors' = << >>
    /\ last' = [op |-> "removeController", index |-> index]
    /\ addLog' = << 0 >>
    /\ UNCHANGED << lifecycleVars, isOpen, appVars, clientVars >>

removeController(index) ==
    /\ RemoveHandled(index)
    /\ UNCHANGED reportVars

\* removeController(index), the controllers whose slot it empties being
\* recorded
Release(index) ==
    /\ RemoveHandled(index)
    /\ released' = released \cup
            {controllers[i] : i \in {j \in Slots : controllers[j] # 0
                                                  /\ controllers'[j] = 0}}
    /\ UNCHANGED << emitted, delivered >>

\* the indices a caller may pass: every slot and one index past the table
RemoveArgs == {ArgUndefined} \cup {ArgNumber(n) : n \in 0 .. NumSlots}

(***************************************************************************)
(* Server lifecycle.  start() and prepareToExit() run up to their await,   *)
(* which queues the rest as a microtask; the body of stop() has no await   *)
(* and runs at once.  Socket events arrive only when no microtask waits.   *)
(***************************************************************************)
SocketsCreated == Cardinality({s \in 1 .. MaxSockets : socks[s].state # "none"})

PendingStarts ==
    Cardinality({k \in 1 .. Len(microtasks) : microtasks[k].k = "start"})

\* a stop() that leaves the socket as it is
StoppedSocksLeftOpen(sock, table) == table

\* the socket table after the body of stop(): listeners removed, socket closed
StoppedSocks(sock, table) ==
    IF sock # 0
    THEN [table EXCEPT ![sock].state = "closed", ![sock].onMessage = 0]
    ELSE table

\* UdpServer.start up to "await this.stop()"; app: called by AppServer.start
start(app) ==
    /\ SocketsCreated + PendingStarts < MaxSockets
    /\ socks' = StoppedSocks(socket, socks)
    /\ socket' = 0
    /\ microtasks' = Append(microtasks, [k |-> "start", app |-> app])
    /\ out' = << >>
    /\ errors' = << >>
    /\ last' = [op |-> "start", app |-> app]
    /\ UNCHANGED addLog
    /\ UNCHANGED << controllers, isOpen, appVars, clientVars >>
    /\ UNCHANGED reportVars

stop ==
    /\ socks' = StoppedSocks(socket, socks)
    /\ socket' = 0
    /\ out' = << >>
    /\ errors' = << >>
    /\ last' = [op |-> "stop", had |-> socket]
    /\ UNCHANGED addLog
    /\ UNCHANGED << microtasks, controllers, isOpen, appVars, clientVars >>
    /\ UNCHANGED reportVars

\* AppServer.prepareToExit up to "await this.serverInstance.stop()"
prepareToExit ==
    /\ Len(microtasks) < MaxSockets
    /\ socks' = StoppedSocks(socket, socks)
    /\ socket' = 0
    /\ microtasks' = Append(microtasks, [k |-> "exit", app |-> TRUE])
    /\ out' = << >>
    /\ errors' = << >>
    /\ last' = [op |-> "prepareToExit"]
    /\ UNCHANGED addLog
    /\ UNCHANGED << controllers, isOpen, appVars, clientVars >>
    /\ UNCHANGED reportVars

NewSocket == CHOOSE s \in 1 .. MaxSockets :
                /\ socks[s].state = "none"
                /\ \A t \in 1 .. (s - 1) : socks[t].state # "none"

\* the rest of start(): createSocket, the once-listeners, bind
ResumeStart ==
    /\ microtasks # << >>
    /\ Head(microtasks).k = "start"
    /\ microtasks' = Tail(microtasks)
    /\ socket' = NewSocket
    /\ socks' = [socks EXCEPT ![NewSocket] =
                    [state |-> "binding", onMessage |-> 0,
                     app |-> Head(microtasks).app]]
    /\ out' = << >>
    /\ errors' = << >>
    /\ last' = [op |-> "resumeStart", created |-> NewSocket]
    /\ UNCHANGED addLog
    /\ UNCHANGED << controllers, isOpen, appVars, clientVars >>
    /\ UNCHANGED reportVars

\* the rest of prepareToExit(): removeController() with no argument
ResumeExit ==
    /\ microtasks # << >>
    /\ Head(microtasks).k = "exit"
    /\ microtasks' = Tail(microtasks)
    /\ controllers' = Removed(controllers, ArgUndefined)
    /\ out' = << >>
    /\ errors' = << >>
    /\ last' = [op |-> "resumeExit"]
    /\ addLog' = << 0 >>
    /\ UNCHANGED << socket, socks, isOpen, appVars, clientVars >>
    /\ UNCHANGED reportVars

\* "listening" on socket s: the handler works on this.socket, whichever
\* socket that is by now, and throws when it is null; resolve() lets an
\* AppServer.start go on to subscribe to the controller list
Listening(s) ==
    /\ microtasks = << >>
    /\ socks[s].state = "binding"
    /\ socks[s].app => listSubs < MaxListSubs
    /\ UNCHANGED << socket, microtasks >>
    /\ IF socket = 0
       THEN /\ socks' = [socks EXCEPT ![s].state = "listening"]
            /\ listSubs' = listSubs
       ELSE /\ socks' = [[socks EXCEPT ![s].state = "listening"]
                            EXCEPT ![socket].onMessage = @ + 1]
            /\ listSubs' = IF socks[s].app THEN listSubs + 1 ELSE listSubs
    /\ out' = << >>
    /\ errors' = << >>
    /\ last' = [op |-> "listening", sock |-> s, threw |-> (socket = 0)]
    /\ UNCHANGED addLog
    /\ UNCHANGED << controllers, isOpen, listed, clientVars >>
    /\ UNCHANGED reportVars

\* "error" on a socket that is binding: start() rejects, this.socket stays
BindError(s) ==
    /\ microtasks = << >>
    /\ socks[s].state = "binding"
    /\ socks' = [socks EXCEPT ![s].state = "failed"]
    /\ out' = << >>
    /\ errors' = << >>
    /\ last' = [op |-> "bindError", sock |-> s]
    /\ UNCHANGED addLog
    /\ UNCHANGED << socket, microtasks, controllers, isOpen, appVars, clientVars >>
    /\ UNCHANGED reportVars

(***************************************************************************)
(* AppServer: every subscription taken by start() handles each change of   *)
(* the controller list, adding the added controllers and passing the       *)
(* removed controllers themselves to removeController.                     *)
(***************************************************************************)
RECURSIVE AddedAll(_, _)
AddedAll(ctrls, added) ==
    IF added = << >> THEN ctrls
    ELSE AddedAll(AddedTo(ctrls, Head(added)), Tail(added))

RECURSIVE RemovedAll(_, _)
RemovedAll(ctrls, removed) ==
    IF removed = << >> THEN ctrls
    ELSE RemovedAll(Removed(ctrls, ArgObject(Head(removed))), Tail(removed))

\* one subscriber's callback
ListHandled(ctrls, added, removed) ==
    RemovedAll(AddedAll(ctrls, added), removed)

RECURSIVE ListHandledBy(_, _, _, _)
ListHandledBy(n, ctrls, added, removed) ==
    IF n = 0 THEN ctrls
    ELSE ListHandledBy(n - 1, ListHandled(ctrls, added, removed), added, removed)

\* the controller master reports c as plugged in (removed = FALSE) or gone
ListChange(c, removed) ==
    /\ microtasks = << >>
    /\ listSubs > 0
    /\ removed <=> c \in listed
    /\ listed' = IF removed THEN listed \ {c} ELSE listed \cup {c}
    /\ controllers' =
         ListHandledBy(listSubs, controllers,
                       IF removed THEN << >> ELSE << c >>,
                       IF removed THEN << c >> ELSE << >>)
    /\ out' = << >>
    /\ errors' = << >>
    /\ last' = [op |-> "listChange", controller |-> c, removed |-> removed,
                installed |-> (~removed /\ AddResult(controllers))]
    /\ addLog' = << 0 >>
    /\ UNCHANGED << lifecycleVars, isOpen, listSubs, clientVars >>
    /\ UNCHANGED reportVars

(***************************************************************************)
(* Outbound packets.                                                       *)
(***************************************************************************)
\* a header that opens with the magic of a client
beginPacketClientMagic(data, protocolVer) ==
    WriteAt(data, 0,
            << charCode("D"), charCode("S"), charCode("U"), charCode("C") >>
                \o U16LE(protocolVer) \o U16LE(Len(data) - 16)
                \o U32LE(0) \o U32LE(serverId))

\* the buffer after beginPacket (buffers passed are never below 16 bytes)
beginPacket(data, protocolVer) ==
    WriteAt(data, 0,
            << charCode("D"), charCode("S"), charCode("U"), charCode("S") >>
                \o U16LE(protocolVer) \o U16LE(Len(data) - 16)
                \o U32LE(0) \o U32LE(serverId))

\* a finishPacket that leaves the checksum field as beginPacket wrote it
finishPacketUnsealed(data) == data

finishPacket(data) == WriteAt(data, 8, crc32(data))

\* the datagram sendPacket hands to socket.send
sendPacket(clientEndpoint, data, protocolVer) ==
    [to |-> [address |-> clientEndpoint.address, port |-> clientEndpoint.port],
     data |-> finishPacket(
                WriteAt(beginPacket(Zeros(Len(data) + 16), protocolVer), 16, data))]

(***************************************************************************)
(* Controller reports.  The devices are not among the sources at hand: a   *)
(* report is the NormalizedReport of the specification.  DeviceReport is   *)
(* the report controller c produces with packet counter n.                 *)
(***************************************************************************)
DeviceReport(c, n) ==
    [packetCounter |-> n,
     button |-> [dPad |-> [LEFT |-> TRUE, DOWN |-> FALSE, RIGHT |-> FALSE,
                           UP |-> (c % 2 = 1)],
                 options |-> FALSE, R3 |-> TRUE, L3 |-> FALSE, share |-> TRUE,
                 SQUARE |-> FALSE, CROSS |-> TRUE, CIRCLE |-> FALSE,
                 TRIANGLE |-> FALSE, R1 |-> TRUE, L1 |-> FALSE, R2 |-> FALSE,
                 L2 |-> TRUE, PS |-> FALSE, touch |-> TRUE],
     position |-> [left |-> [x |-> 128, y |-> 127],
                   right |-> [x |-> 10 + c, y |-> 255]],
     trigger |-> [R2 |-> 200, L2 |-> 17],
     trackPad |-> [first |-> [isActive |-> TRUE, id |-> 7, x |-> 300, y |-> 1000],
                   second |-> [isActive |-> (c = 3), id |-> 9, x |-> 65535, y |-> 2]],
     motionTimestamp |-> [low |-> 1000000 + n, high |-> 3],
     accelerometer |-> [x |-> 0, y |-> 1, z |-> -1],
     gyro |-> [x |-> 3, y |-> -250, z |-> 65536]]

\* the first bitmap byte of handleReport
ButtonsA(button) ==
    128 * Flag(button.dPad.LEFT) + 64 * Flag(button.dPad.DOWN)
        + 32 * Flag(button.dPad.RIGHT) + 16 * Flag(button.dPad.UP)
        + 8 * Flag(button.options) + 4 * Flag(button.R3)
        + 2 * Flag(button.L3) + Flag(button.share)

\* the second bitmap byte
ButtonsB(button) ==
    128 * Flag(button.SQUARE) + 64 * Flag(button.CROSS)
        + 32 * Flag(button.CIRCLE) + 16 * Flag(button.TRIANGLE)
        + 8 * Flag(button.R1) + 4 * Flag(button.L1)
        + 2 * Flag(button.R2) + Flag(button.L2)

\* the bytes handleReport writes after the header up to trigger.L2: from the
\* bitmaps on each is written at ++outIndex, so outIndex ends on the byte of
\* trigger.L2
PadDataHead(meta, report) ==
    U32LE(DSUS_PadDataRsp)
        \o << ToByte(meta.padId), ToByte(meta.state), ToByte(meta.model),
              ToByte(meta.connectionType) >>
        \o [k \in 1 .. Len(split(meta.macAddress)) |->
                ToByte(parseInt16(split(meta.macAddress)[k]))]
        \o << ToByte(meta.batteryStatus), Flag(meta.isActive) >>
        \o U32LE(report.packetCounter)
        \o << ButtonsA(report.button), ButtonsB(report.button),
              Flag(report.button.PS), Flag(report.button.touch),
              ToByte(report.position.left.x), ToByte(report.position.left.y),
              ToByte(report.position.right.x), ToByte(report.position.right.y),
              Analog(report.button.dPad.LEFT), Analog(report.button.dPad.DOWN),
              Analog(report.button.dPad.RIGHT), Analog(report.button.dPad.UP),
              Analog(report.button.SQUARE), Analog(report.button.CROSS),
              Analog(report.button.CIRCLE), Analog(report.button.TRIANGLE),
              Analog(report.button.R1), Analog(report.button.L1),
              ToByte(report.trigger.R2), ToByte(report.trigger.L2) >>

\* the bytes written from the track pad on, each at outIndex++
PadDataTail(report) ==
    << Flag(report.trackPad.first.isActive), ToByte(report.trackPad.first.id) >>
        \o U16LE(report.trackPad.first.x) \o U16LE(report.trackPad.first.y)
        \o << Flag(report.trackPad.second.isActive),
              ToByte(report.trackPad.second.id) >>
        \o U16LE(report.trackPad.second.x) \o U16LE(report.trackPad.second.y)
        \o U32LE(report.motionTimestamp.low) \o U32LE(report.motionTimestamp.high)
        \o F32LE(report.accelerometer.x) \o F32LE(report.accelerometer.y)
        \o F32LE(report.accelerometer.z)
        \o F32LE(report.gyro.x) \o F32LE(report.gyro.y) \o F32LE(report.gyro.z)

\* an outBuffer whose track pad starts one byte further on
PadDataBufferSkipping(meta, report) ==
    LET head == PadDataHead(meta, report)
        outIndex == (16 + Len(head) - 1) + 2
    IN  finishPacket(
            WriteAt(WriteAt(beginPacket(Zeros(101), ReplyProtocolVer), 16, head),
                    outIndex, PadDataTail(report)))

\* outBuffer of handleReport when it reaches the send loop: outIndex is on
\* the byte of trigger.L2 after the head, "outIndex++" moves it one byte on
\* and the track pad is written from there
PadDataBuffer(meta, report) ==
    LET head == PadDataHead(meta, report)
        outIndex == (16 + Len(head) - 1) + 1
    IN  finishPacket(
            WriteAt(WriteAt(beginPacket(Zeros(100), ReplyProtocolVer), 16, head),
                    outIndex, PadDataTail(report)))

(***************************************************************************)
(* Client registry.  The Map is keyed by the endpoint object: two keys are *)
(* the same key when they are the same object.  ClientRequestTimes is not  *)
(* among the sources at hand and follows the specification.                *)
(***************************************************************************)
\* a timestamp no request has set: further in the past than any limit
Never == 0 - (ClientTimeoutLimit + 1)

NewClientRequestTimes ==
    [timeForAllPads |-> Never,
     timeForPadById |-> [i \in Slots |-> Never],
     timeForPadByMac |-> [m \in {} |-> Never]]

registerPadRequest(times, flags, idToRegister, macToRegister, time) ==
    LET byId == (flags % 2 = 1) /\ idToRegister \in Slots
        byMac == (flags \div 2) % 2 = 1
    IN  [timeForAllPads |-> IF flags = 0 THEN time ELSE times.timeForAllPads,
         timeForPadById |->
            IF byId THEN [times.timeForPadById EXCEPT ![idToRegister] = time]
            ELSE times.timeForPadById,
         timeForPadByMac |->
            IF byMac
            THEN [m \in DOMAIN times.timeForPadByMac \cup {macToRegister} |->
                    IF m = macToRegister THEN time ELSE times.timeForPadByMac[m]]
            ELSE times.timeForPadByMac]

\* Map key equality (SameValueZero): the same object
SameKey(key, other) == key.obj = other.obj

\* this.clients.has(clientEndpoint)
HasClient(clnts, clientEndpoint) ==
    \E k \in 1 .. Len(clnts) : SameKey(clnts[k].key, clientEndpoint)

\* a registration that stamps the subscription of every client
RegisteredForAll(clnts, clientEndpoint, flags, idToRegister, macToRegister, time) ==
    LET with == IF HasClient(clnts, clientEndpoint) THEN clnts
                ELSE Append(clnts, [key |-> clientEndpoint,
                                    times |-> NewClientRequestTimes])
    IN  [k \in 1 .. Len(with) |->
            [with[k] EXCEPT !.times =
                registerPadRequest(@, flags, idToRegister, macToRegister, time)]]

\* the registry after the has/set/get.registerPadRequest of onMessage
Registered(clnts, clientEndpoint, flags, idToRegister, macToRegister, time) ==
    LET with == IF HasClient(clnts, clientEndpoint) THEN clnts
                ELSE Append(clnts, [key |-> clientEndpoint,
                                    times |-> NewClientRequestTimes])
    IN  [k \in 1 .. Len(with) |->
            IF SameKey(with[k].key, clientEndpoint)
            THEN [with[k] EXCEPT !.times =
                    registerPadRequest(@, flags, idToRegister, macToRegister,
                                       time)]
            ELSE with[k]]

\* currentTime - time < UdpServerDefaults.ClientTimeoutLimit
\* a comparison that also takes a time exactly ClientTimeoutLimit old
FreshAtLimit(time, currentTime) == currentTime - time <= ClientTimeoutLimit

\* currentTime - time < UdpServerDefaults.ClientTimeoutLimit
Fresh(time, currentTime) == currentTime - time < ClientTimeoutLimit

\* push branches without the one for timeForAllPads
PushedByPadOrMac(times, meta, currentTime) ==
    \/ /\ meta.padId < NumSlots
       /\ Fresh(times.timeForPadById[meta.padId], currentTime)
    \/ /\ meta.macAddress \in DOMAIN times.timeForPadByMac
       /\ Fresh(times.timeForPadByMac[meta.macAddress], currentTime)

\* the first three branches of the loop of getClientsForReport: the client
\* is pushed on the list returned
Pushed(times, meta, currentTime) ==
    \/ Fresh(times.timeForAllPads, currentTime)
    \/ /\ meta.padId < NumSlots
       /\ Fresh(times.timeForPadById[meta.padId], currentTime)
    \/ /\ meta.macAddress \in DOMAIN times.timeForPadByMac
       /\ Fresh(times.timeForPadByMac[meta.macAddress], currentTime)

\* a last branch that scans the per-pad times only
IsClientOkByPad(times, currentTime) ==
    \E i \in Slots : Fresh(times.timeForPadById[i], currentTime)

\* the last branch: isClientOk after the scans of the per-pad and the
\* per-MAC times
IsClientOk(times, currentTime) ==
    \/ \E i \in Slots : Fresh(times.timeForPadById[i], currentTime)
    \/ \E m \in DOMAIN times.timeForPadByMac :
          Fresh(times.timeForPadByMac[m], currentTime)

\* an entry of clientsToDelete
ToDelete(times, meta, currentTime) ==
    ~Pushed(times, meta, currentTime) /\ ~IsClientOk(times, currentTime)

\* getClientsForReport: the endpoints returned, in the order of the Map, and
\* this.clients after the deletions
getClientsForReport(clnts, meta, currentTime) ==
    [clients |->
        [k \in 1 .. Len(SelectSeq(clnts,
                LAMBDA c : Pushed(c.times, meta, currentTime))) |->
            SelectSeq(clnts, LAMBDA c : Pushed(c.times, meta, currentTime))[k].key],
     registry |->
        SelectSeq(clnts, LAMBDA c : ~ToDelete(c.times, meta, currentTime))]

(***************************************************************************)
(* onMessage.  Its outcome: the datagrams sent, the errors emitted by the  *)
(* catch block (none or one) and the client registry.                      *)
(***************************************************************************)
Outcome(sent, thrown, clnts) == [out |-> sent, errors |-> thrown, clients |-> clnts]

\* the check loop of DSUC_ListPorts: some requested byte is above 3
IndexOutOfRange(data, index, numOfPadRequests) ==
    \E i \in 0 .. (numOfPadRequests - 1) : At(data, index + i) > 3

\* the MAC bytes written to the port-info buffer
PortInfoMac(meta) ==
    IF meta.macAddress # NullString /\ Len(meta.macAddress) = 17
    THEN LET mac == split(meta.macAddress)
         IN  [k \in 1 .. Len(mac) |-> ToByte(parseInt16(mac[k]))]
    ELSE Zeros(6)

\* outBuffer after the writes of one iteration of the reply loop
PortInfoBuffer(outBuffer, meta) ==
    LET mac == PortInfoMac(meta)
    IN  WriteAt(outBuffer, 0,
                U32LE(DSUS_PortInfo)
                    \o << ToByte(meta.padId), ToByte(meta.state),
                          ToByte(meta.model), ToByte(meta.connectionType) >>
                    \o mac \o << ToByte(meta.batteryStatus), 0 >>)

\* the reply loop of DSUC_ListPorts from iteration i on
RECURSIVE ListPortsReplies(_, _, _, _, _, _, _, _)
ListPortsReplies(data, index, numOfPadRequests, i, outBuffer, clientEndpoint, ctrls, open) ==
    IF i >= numOfPadRequests THEN << >>
    ELSE LET requestIndex == At(data, index + i)
             controller == IF requestIndex \in Slots THEN ctrls[requestIndex]
                           ELSE 0
             meta == IF controller # 0 THEN dualShockMeta(controller, open)
                     ELSE << >>
         IN  IF meta # << >>
             THEN LET buffer == PortInfoBuffer(outBuffer, meta[1])
                  IN  << sendPacket(clientEndpoint, buffer, ReplyProtocolVer) >>
                        \o ListPortsReplies(data, index, numOfPadRequests,
                                            i + 1, buffer, clientEndpoint,
                                            ctrls, open)
             ELSE ListPortsReplies(data, index, numOfPadRequests, i + 1,
                                   outBuffer, clientEndpoint, ctrls, open)

\* one part of macToRegister
MacPart(b) == (IF b < 15 THEN << "0" >> ELSE << >>) \o toString16(b)

macToRegister(data, index) ==
    join([i \in 1 .. 6 |-> MacPart(At(data, index + i - 1))])

\* a version check that also turns MaxProtocolVer away
OutdatedFromMax(protocolVer) == protocolVer >= MaxProtocolVer

\* protocolVer > UdpServerDefaults.MaxProtocolVer
Outdated(protocolVer) == protocolVer > MaxProtocolVer

\* the branch taken on msgType, after the header has been accepted
Dispatch(data, clientEndpoint, ctrls, open, clnts, time) ==
    LET msgType == readUInt32LE(data, 16)
    IN  IF msgType = U32LE(DSUC_VersionReq)
        THEN Outcome(<< sendPacket(clientEndpoint,
                                   U32LE(DSUS_VersionRsp) \o U32LE(MaxProtocolVer),
                                   ReplyProtocolVer) >>,
                     << >>, clnts)
        ELSE IF msgType = U32LE(DSUC_ListPorts)
        THEN IF ~CanRead(data, 20, 4)
             THEN Outcome(<< >>, << "RangeError" >>, clnts)
             ELSE LET numOfPadRequests == readInt32LE(data, 20)
                  IN  IF numOfPadRequests < 0 \/ numOfPadRequests > 4
                      THEN Outcome(<< >>,
                                   << "number of pad requests is out of range" >>,
                                   clnts)
                      ELSE IF IndexOutOfRange(data, 24, numOfPadRequests)
                      THEN Outcome(<< >>, << "request index is out of range" >>,
                                   clnts)
                      ELSE Outcome(ListPortsReplies(data, 24, numOfPadRequests,
                                                    0, Zeros(16),
                                                    clientEndpoint, ctrls, open),
                                   << >>, clnts)
        ELSE IF msgType = U32LE(DSUC_PadDataReq)
        THEN IF \E i \in 0 .. 5 : At(data, 22 + i) = Undef
             THEN Outcome(<< >>, << "TypeError" >>, clnts)
             ELSE Outcome(<< >>, << >>,
                          Registered(clnts, clientEndpoint, At(data, 20),
                                     At(data, 21), macToRegister(data, 22),
                                     time))
        ELSE Outcome(<< >>, << >>, clnts)

onMessage(data, clientEndpoint, ctrls, open, clnts, time) ==
    IF ~(/\ At(data, 0) = charCode("D") /\ At(data, 1) = charCode("S")
         /\ At(data, 2) = charCode("U") /\ At(data, 3) = charCode("C"))
    THEN Outcome(<< >>, << >>, clnts)
    ELSE IF ~CanRead(data, 4, 2)
    THEN Outcome(<< >>, << "RangeError" >>, clnts)
    ELSE IF Outdated(readUInt16LE(data, 4))
    THEN Outcome(<< >>, << "outdated protocol" >>, clnts)
    ELSE IF ~CanRead(data, 6, 2)
    THEN Outcome(<< >>, << "RangeError" >>, clnts)
    ELSE IF readUInt16LE(data, 6) < 0
    THEN Outcome(<< >>, << "negative packet size received" >>, clnts)
    ELSE IF ~CanRead(data, 8, 4)
    THEN Outcome(<< >>, << "RangeError" >>, clnts)
    ELSE LET receivedCrc == readUInt32LE(data, 8)
             zeroed == WriteAt(data, 8, << 0, 0, 0, 0 >>)
         IN  IF receivedCrc # crc32(zeroed)
             THEN Outcome(<< >>, << "crc mismatch" >>, clnts)
             ELSE IF ~CanRead(zeroed, 12, 4) \/ ~CanRead(zeroed, 16, 4)
             THEN Outcome(<< >>, << "RangeError" >>, clnts)
             ELSE Dispatch(zeroed, clientEndpoint, ctrls, open, clnts, time)

(***************************************************************************)
(* Inbound datagrams.  Each is built the way a DSU client builds it and    *)
(* carries, beside its bytes, what was done to it:                         *)
(*   fault   "none", or the one reason it is malformed                     *)
(*   kind    the request it is (or was before it was damaged)              *)
(*   ver     the protocol version it declares                              *)
(*   pads    the pad indices of a DSUC_ListPorts request                   *)
(***************************************************************************)
Endpoints ==
    << [address |-> "192.168.0.2", port |-> 50000],
       [address |-> "192.168.0.2", port |-> 50001] >>

ClientMagic == << charCode("D"), charCode("S"), charCode("U"), charCode("C") >>
ServerMagic == << charCode("D"), charCode("S"), charCode("U"), charCode("S") >>

\* a request before its CRC is filled in; clientId is 0x12345678
Raw(magic, ver, msgType, payload) ==
    magic \o U16LE(ver) \o U16LE(4 + Len(payload)) \o U32LE(0)
        \o << 120, 86, 52, 18 >> \o U32LE(msgType) \o payload

Seal(raw) == WriteAt(raw, 8, crc32(WriteAt(raw, 8, U32LE(0))))

Request(ver, msgType, payload) == Seal(Raw(ClientMagic, ver, msgType, payload))

\* the first n bytes of a request, with a CRC that fits them when n >= 12
Cut(raw, n) ==
    IF n >= 12 THEN Seal(SubSeq(raw, 1, n)) ELSE SubSeq(raw, 1, n)

\* one bit of byte i flipped after the CRC was filled in
FlipBit(data, i) == WriteAt(data, i, << Xor8(data[i + 1], 1) >>)

\* numOfPadRequests as the client writes it (a signed 32-bit word)
I32LE(n) == IF n >= 0 THEN U32LE(n) ELSE << 256 + n, 255, 255, 255 >>

ListPayload(n, pads) == I32LE(n) \o pads

PadPayload(flags, id, mac) == << flags, id >> \o mac

Dgram(data, fault, kind, ver, pads) ==
    [data |-> data, fault |-> fault, kind |-> kind, ver |-> ver, pads |-> pads]

VersionProbes ==
    << Dgram(Request(1001, DSUC_VersionReq, << >>), "none", "version", 1001, << >>),
       Dgram(Request(1000, DSUC_VersionReq, << >>), "none", "version", 1000, << >>),
       Dgram(Request(0, DSUC_VersionReq, << >>), "none", "version", 0, << >>),
       Dgram(Request(1002, DSUC_VersionReq, << >>), "version", "version", 1002, << >>),
       Dgram(Request(65535, DSUC_VersionReq, << >>), "version", "version", 65535, << >>),
       Dgram(Request(1002, DSUC_ListPorts, ListPayload(1, << 0 >>)),
             "version", "list", 1002, << 0 >>),
       Dgram(Request(1001, DSUC_ListPorts + 16, << >>), "none", "other", 1001, << >>) >>

MalformedProbes ==
    << Dgram(Seal(Raw(ServerMagic, 1001, DSUC_VersionReq, << >>)),
             "magic", "version", 1001, << >>),
       Dgram(Seal(Raw(ServerMagic, 1001, DSUC_ListPorts, ListPayload(1, << 0 >>))),
             "magic", "list", 1001, << 0 >>),
       Dgram(FlipBit(Request(1001, DSUC_VersionReq, << >>), 8),
             "crc", "version", 1001, << >>),
       Dgram(FlipBit(Request(1001, DSUC_VersionReq, << >>), 13),
             "crc", "version", 1001, << >>),
       Dgram(FlipBit(Request(1001, DSUC_ListPorts, ListPayload(1, << 0 >>)), 24),
             "crc", "list", 1001, << 0 >>),
       Dgram(Cut(Raw(ClientMagic, 1001, DSUC_VersionReq, << >>), 3),
             "short", "version", 1001, << >>),
       Dgram(Cut(Raw(ClientMagic, 1001, DSUC_VersionReq, << >>), 5),
             "short", "version", 1001, << >>),
       Dgram(Cut(Raw(ClientMagic, 1001, DSUC_VersionReq, << >>), 7),
             "short", "version", 1001, << >>),
       Dgram(Cut(Raw(ClientMagic, 1001, DSUC_VersionReq, << >>), 10),
             "short", "version", 1001, << >>),
       Dgram(Cut(Raw(ClientMagic, 1001, DSUC_VersionReq, << >>), 14),
             "short", "version", 1001, << >>),
       Dgram(Cut(Raw(ClientMagic, 1001, DSUC_VersionReq, << >>), 18),
             "short", "version", 1001, << >>),
       Dgram(Cut(Raw(ClientMagic, 1001, DSUC_ListPorts, ListPayload(1, << 0 >>)), 22),
             "short", "list", 1001, << 0 >>),
       Dgram(Cut(Raw(ClientMagic, 1001, DSUC_PadDataReq,
                     PadPayload(0, 0, Zeros(6))), 24),
             "short", "pad", 1001, << >>),
       Dgram(FlipBit(Request(1001, DSUC_PadDataReq, PadPayload(0, 0, Zeros(6))), 22),
             "crc", "pad", 1001, << >>) >>

ListProbes ==
    << Dgram(Request(1001, DSUC_ListPorts, ListPayload(0, << >>)),
             "none", "list", 1001, << >>),
       Dgram(Request(1001, DSUC_ListPorts, ListPayload(2, << 1, 1 >>)),
             "none", "list", 1001, << 1, 1 >>),
       Dgram(Request(1001, DSUC_ListPorts, ListPayload(4, << 0, 1, 2, 3 >>)),
             "none", "list", 1001, << 0, 1, 2, 3 >>),
       Dgram(Request(1001, DSUC_ListPorts, ListPayload(4, << 3, 0, 2, 1 >>)),
             "none", "list", 1001, << 3, 0, 2, 1 >>),
       Dgram(Request(1001, DSUC_ListPorts, ListPayload(5, << 0, 1, 2, 3, 0 >>)),
             "count", "list", 1001, << 0, 1, 2, 3, 0 >>),
       Dgram(Request(1001, DSUC_ListPorts, ListPayload(-1, << 0 >>)),
             "count", "list", 1001, << 0 >>),
       Dgram(Request(1001, DSUC_ListPorts, ListPayload(2, << 0, 4 >>)),
             "index", "list", 1001, << 0, 4 >>),
       \* two indices declared, the datagram ends after the first
       Dgram(Cut(Raw(ClientMagic, 1001, DSUC_ListPorts, ListPayload(2, << 0, 1 >>)), 25),
             "short", "list", 1001, << 0 >>) >>

\* flags, idToRegister and MAC: all pads; pad 2; the MAC of controller 3;
\* pad 0 and the MAC of controller 1; an id that is no pad
PadRequests ==
    << Dgram(Request(1001, DSUC_PadDataReq, PadPayload(0, 0, Zeros(6))),
             "none", "pad", 1001, << >>),
       Dgram(Request(1001, DSUC_PadDataReq, PadPayload(1, 2, Zeros(6))),
             "none", "pad", 1001, << >>),
       Dgram(Request(1001, DSUC_PadDataReq,
                     PadPayload(2, 0, << 0, 171, 16, 161, 255, 3 >>)),
             "none", "pad", 1001, << >>),
       Dgram(Request(1001, DSUC_PadDataReq,
                     PadPayload(3, 0, << 0, 15, 16, 161, 255, 1 >>)),
             "none", "pad", 1001, << >>),
       Dgram(Request(1001, DSUC_PadDataReq, PadPayload(1, 200, Zeros(6))),
             "none", "pad", 1001, << >>) >>

Datagrams == VersionProbes \o MalformedProbes \o ListProbes \o PadRequests

ProbeIds == 1 .. (Len(VersionProbes) + Len(MalformedProbes) + Len(ListProbes))
PadRequestIds == (DOMAIN Datagrams) \ ProbeIds
\* the pad-data requests for all pads, for pad 2 and for the MAC of
\* controller 3
SweepRequestIds == {k \in PadRequestIds : k - Len(Datagrams) + Len(PadRequests) <= 3}
\* the pad-data request for all pads
AllPadsRequestIds == {k \in PadRequestIds : k - Len(Datagrams) + Len(PadRequests) = 1}
\* the controllers that emit reports: one on pad 0, one on pad 2
ReportCtrl == {1, 3}
\* the probes that reach the DSUC_ListPorts branch
ListIds == ProbeIds \ (1 .. (Len(VersionProbes) + Len(MalformedProbes)))

(***************************************************************************)
(* Events.                                                                 *)
(***************************************************************************)
\* the endpoint object dgram passes with a datagram: a new object each time
FreshObj ==
    CHOOSE n \in 1 .. (Len(clients) + 1) :
        \A k \in 1 .. Len(clients) : clients[k].key.obj # n

\* a "message" event: datagram k from endpoint e reaches a listening socket
\* that has onMessage attached
OnMessage(k, e) ==
    /\ microtasks = << >>
    /\ \E s \in 1 .. MaxSockets :
          socks[s].state = "listening" /\ socks[s].onMessage > 0
    /\ \E r \in {onMessage(Datagrams[k].data,
                           [obj |-> FreshObj, address |-> Endpoints[e].address,
                            port |-> Endpoints[e].port],
                           controllers, isOpen, clients, now)} :
           /\ Len(r.clients) <= MaxClients
           /\ clients' = r.clients
           /\ out' = r.out
           /\ errors' = r.errors
    /\ last' = [op |-> "onMessage", dgram |-> k, from |-> e]
    /\ UNCHANGED << lifecycleVars, controllers, isOpen, appVars, now, addLog >>
    /\ UNCHANGED reportVars

\* handleReport(data) with data = {meta, report}
handleReport(data, sock, clnts, time) ==
    IF sock = 0 THEN Outcome(<< >>, << >>, clnts)
    ELSE LET found == getClientsForReport(clnts, data.meta, time)
         IN  IF Len(found.clients) = 0
             THEN Outcome(<< >>, << >>, found.registry)
             ELSE IF data.meta.macAddress = NullString
             THEN Outcome(<< >>, << "TypeError" >>, found.registry)
             ELSE LET outBuffer == PadDataBuffer(data.meta, data.report)
                  IN  Outcome([k \in 1 .. Len(found.clients) |->
                                 [to |-> [address |-> found.clients[k].address,
                                          port |-> found.clients[k].port],
                                  data |-> outBuffer]],
                              << >>, found.registry)

\* a subscription that outlives the slot it was made for
SubscribedStill(ctrls, c, i) == IF i >= NumSlots THEN << >> ELSE << i >>

\* the slots whose subscriptions to onError and onDualshockData of
\* controller c are live, in the order the slots were filled
RECURSIVE Subscribed(_, _, _)
Subscribed(ctrls, c, i) ==
    IF i >= NumSlots THEN << >>
    ELSE (IF ctrls[i] = c THEN << i >> ELSE << >>) \o Subscribed(ctrls, c, i + 1)

\* dualshockDataSubject.next(data): every subscriber handles the report
RECURSIVE Published(_, _, _, _, _)
Published(slots, data, sock, time, done) ==
    IF slots = << >> THEN done
    ELSE LET r == handleReport(data, sock, done.clients, time)
         IN  Published(Tail(slots), data, sock, time,
                       Outcome(done.out \o r.out, done.errors \o r.errors,
                               r.clients))

\* the device of controller c delivers a report with packet counter n:
\* setData builds {meta, report} with the controller's id and publishes it
ReportHandled(c, n) ==
    /\ microtasks = << >>
    /\ \E r \in {Published(Subscribed(controllers, c, 0),
                            [meta |-> ControllerMeta(c),
                             report |-> DeviceReport(c, n)],
                            socket, now, Outcome(<< >>, << >>, clients))} :
           /\ clients' = r.clients
           /\ out' = r.out
           /\ errors' = r.errors
           /\ last' = [op |-> "report", controller |-> c, counter |-> n,
                       deleted |-> Len(clients) - Len(r.clients)]
    /\ UNCHANGED << lifecycleVars, controllers, isOpen, appVars, now, addLog >>

Report(c, n) ==
    /\ ReportHandled(c, n)
    /\ UNCHANGED reportVars

\* controller c emits an error: every live subscription to its onError
\* passes it on to the server's error stream
ControllerError(c) ==
    /\ microtasks = << >>
    /\ errors' = [k \in 1 .. Len(Subscribed(controllers, c, 0)) |->
                     "controller error"]
    /\ out' = << >>
    /\ last' = [op |-> "controllerError", controller |-> c]
    /\ UNCHANGED << lifecycleVars, controllers, isOpen, appVars, clientVars, addLog >>
    /\ UNCHANGED reportVars

\* an "error" event on listening socket s: every handler attached with
\* socket.on("error", ...) passes it on to the server's error stream
SocketError(s) ==
    /\ microtasks = << >>
    /\ socks[s].state = "listening"
    /\ socks[s].onMessage > 0
    /\ errors' = [k \in 1 .. socks[s].onMessage |-> "socket error"]
    /\ out' = << >>
    /\ last' = [op |-> "socketError", sock |-> s]
    /\ UNCHANGED << lifecycleVars, controllers, isOpen, appVars, clientVars, addLog >>
    /\ UNCHANGED reportVars

\* the results socket.send reports to its callback
SendResults == {"sent", "error", "short"}

\* a send callback that passes on the error of a failed send only
SendErrorsOfFailure(result) ==
    IF result = "error" THEN << "send error" >> ELSE << >>

\* the callback of socket.send in sendPacket and in handleReport: what it
\* passes on to the server's error stream
SendErrors(result) ==
    IF result = "error" THEN << "send error" >>
    ELSE IF result = "short"
    THEN << "failed to completely send all of buffer" >>
    ELSE << >>

\* the callback of the first datagram still on its way is called
SendDone(result) ==
    /\ microtasks = << >>
    /\ out # << >>
    /\ out' = Tail(out)
    /\ errors' = SendErrors(result)
    /\ last' = [op |-> "sendDone", result |-> result]
    /\ UNCHANGED << lifecycleVars, controllers, isOpen, appVars, clientVars, addLog >>
    /\ UNCHANGED reportVars

\* what is recorded of a pad-data datagram: the receiver, and the pad and
\* the packet counter as the datagram carries them
Recorded(datagram) ==
    [to |-> datagram.to, padId |-> datagram.data[21],
     packetCounter |-> readInt32LE(datagram.data, 32)]

\* a socket that lets the datagrams of a report overtake the earlier ones
SendsAhead(earlier, datagrams) ==
    [k \in 1 .. Len(datagrams) |-> Recorded(datagrams[k])] \o earlier

\* the datagrams the socket has sent: handleReport calls socket.send for
\* each client before it returns to the controller
Sends(earlier, datagrams) ==
    earlier \o [k \in 1 .. Len(datagrams) |-> Recorded(datagrams[k])]

\* a report whose packet counter follows the controller's previous one, the
\* datagrams sent for it being recorded
ReportInOrder(c) ==
    /\ emitted[c] < MaxReports
    /\ ReportHandled(c, emitted[c])
    /\ emitted' = [emitted EXCEPT ![c] = @ + 1]
    /\ delivered' = Sends(delivered, out')
    /\ UNCHANGED released

\* the device of controller c is opened or closed
OpenClose(c) ==
    /\ isOpen' = [isOpen EXCEPT ![c] = ~@]
    /\ out' = << >>
    /\ errors' = << >>
    /\ last' = [op |-> "openClose", controller |-> c]
    /\ UNCHANGED << lifecycleVars, controllers, appVars, clientVars, addLog >>
    /\ UNCHANGED reportVars

\* time passes
Tick ==
    /\ now < MaxTime
    /\ now' = now + 1
    /\ out' = << >>
    /\ errors' = << >>
    /\ last' = [op |-> "tick"]
    /\ UNCHANGED << lifecycleVars, controllers, isOpen, appVars, clients, addLog >>
    /\ UNCHANGED reportVars

(***************************************************************************)
(* Specifications.                                                         *)
(***************************************************************************)
\* the slot table under direct calls of the server's interface
NextSlots ==
    \/ \E c \in Ctrl : addController(c)
    \/ \E index \in RemoveArgs : removeController(index)
    \/ prepareToExit
    \/ ResumeExit

SpecSlots == Init /\ [][NextSlots]_vars

NextApp ==
    \/ start(TRUE)
    \/ ResumeStart
    \/ \E s \in 1 .. MaxSockets : Listening(s)
    \/ \E s \in 1 .. MaxSockets : BindError(s)
    \/ \E c \in MsgCtrl, removed \in BOOLEAN : ListChange(c, removed)
    \/ prepareToExit
    \/ ResumeExit

SpecApp == Init /\ [][NextApp]_vars

\* requests that leave the client registry alone, against a started server
\* with no controller
NextMsg ==
    \/ start(FALSE)
    \/ ResumeStart
    \/ \E s \in 1 .. MaxSockets : Listening(s)
    \/ \E k \in ProbeIds, e \in DOMAIN Endpoints : OnMessage(k, e)

SpecMsg == Init /\ [][NextMsg]_vars

\* DSUC_ListPorts requests against a started server whose controllers come,
\* open and close
NextList ==
    \/ start(FALSE)
    \/ ResumeStart
    \/ \E s \in 1 .. MaxSockets : Listening(s)
    \/ \E c \in MsgCtrl : addController(c)
    \/ \E c \in MsgCtrl : OpenClose(c)
    \/ \E k \in ListIds : OnMessage(k, 1)

SpecList == Init /\ [][NextList]_vars

\* pad-data requests against a started server
NextReg ==
    \/ start(FALSE)
    \/ ResumeStart
    \/ \E s \in 1 .. MaxSockets : Listening(s)
    \/ Tick
    \/ \E k \in PadRequestIds, e \in DOMAIN Endpoints : OnMessage(k, e)

SpecReg == Init /\ [][NextReg]_vars

\* the server is started once
StartOnce ==
    /\ SocketsCreated = 0
    /\ microtasks = << >>
    /\ start(FALSE)

\* a controller is installed while fewer than MaxInstalled are
Install(c) ==
    /\ Cardinality({i \in Slots : controllers[i] # 0}) < MaxInstalled
    /\ addController(c)

\* subscriptions, reports and the passing of time against a server started
\* once
NextSweep ==
    \/ StartOnce
    \/ ResumeStart
    \/ \E s \in 1 .. MaxSockets : Listening(s)
    \/ \E c \in ReportCtrl : Install(c)
    \/ Tick
    \/ \E k \in SweepRequestIds, e \in DOMAIN Endpoints : OnMessage(k, e)
    \/ \E c \in ReportCtrl : Report(c, 0)

SpecSweep == Init /\ [][NextSweep]_vars

\* all-pads subscriptions and reports emitted in order, the datagrams sent
\* being recorded
NextFifo ==
    \/ StartOnce
    \/ ResumeStart
    \/ \E s \in 1 .. MaxSockets : Listening(s)
    \/ \E c \in ReportCtrl : Install(c)
    \/ \E k \in AllPadsRequestIds, e \in DOMAIN Endpoints : OnMessage(k, e)
    \/ \E c \in ReportCtrl : ReportInOrder(c)

SpecFifo == Init /\ [][NextFifo]_vars

\* requests of every type, with a sound and with a damaged checksum, and
\* reports against a server started once
WireIds ==
    {k \in DOMAIN Datagrams :
        /\ Datagrams[k].fault \in {"none", "crc"}
        /\ Datagrams[k].ver = ReplyProtocolVer
        /\ Datagrams[k].kind \in {"version", "list", "pad"}
        /\ Datagrams[k].kind = "list" => Datagrams[k].pads \in {<< 0 >>, << 3, 0, 2, 1 >>}
        /\ Datagrams[k].kind = "pad" => Datagrams[k].data[21] = 0}

NextWire ==
    \/ StartOnce
    \/ ResumeStart
    \/ \E s \in 1 .. MaxSockets : Listening(s)
    \/ \E c \in ReportCtrl : Install(c)
    \/ \E c \in ReportCtrl : OpenClose(c)
    \/ \E k \in WireIds : OnMessage(k, 1)
    \/ \E c \in ReportCtrl : Report(c, 0)

SpecWire == Init /\ [][NextWire]_vars

\* controllers installed and removed while they report and fail, against a
\* server started once with a client subscribed to all pads
NextGone ==
    \/ StartOnce
    \/ ResumeStart
    \/ \E s \in 1 .. MaxSockets : Listening(s)
    \/ \E c \in ReportCtrl : Install(c)
    \/ \E index \in RemoveArgs : Release(index)
    \/ \E k \in AllPadsRequestIds : OnMessage(k, 1)
    \/ \E c \in ReportCtrl : Report(c, 0)
    \/ \E c \in ReportCtrl : ControllerError(c)

SpecGone == Init /\ [][NextGone]_vars

\* reports that arrive before, between and after the calls of start() and
\* stop(), bind failures included, while subscriptions run out
NextIdle ==
    \/ start(FALSE)
    \/ stop
    \/ ResumeStart
    \/ \E s \in 1 .. MaxSockets : Listening(s)
    \/ \E s \in 1 .. MaxSockets : BindError(s)
    \/ \E c \in ReportCtrl : Install(c)
    \/ Tick
    \/ \E k \in AllPadsRequestIds : OnMessage(k, 1)
    \/ \E c \in ReportCtrl : Report(c, 0)

SpecIdle == Init /\ [][NextIdle]_vars

\* datagrams of every kind, sound and malformed, from two peers against a
\* server started once
FrameIds ==
    {k \in DOMAIN Datagrams :
        /\ Datagrams[k].ver \in {ReplyProtocolVer, ReplyProtocolVer + 1}
        /\ Datagrams[k].fault = "short" => Datagrams[k].kind = "pad"
        /\ (Datagrams[k].kind = "list" /\ Datagrams[k].fault = "none")
              => Len(Datagrams[k].pads) = NumSlots
        /\ (Datagrams[k].kind = "pad" /\ Datagrams[k].fault = "none")
              => (Datagrams[k].data[21] <= 2 /\ Datagrams[k].data[22] <= 2)}

NextFrame ==
    \/ StartOnce
    \/ ResumeStart
    \/ \E s \in 1 .. MaxSockets : Listening(s)
    \/ Install(1)
    \/ \E k \in FrameIds, e \in DOMAIN Endpoints : OnMessage(k, e)

SpecFrame == Init /\ [][NextFrame]_vars

\* socket errors and the results of sends between the requests and the
\* reports a server started once handles
ErrIds ==
    {k \in DOMAIN Datagrams :
        /\ Datagrams[k].fault = "none"
        /\ Datagrams[k].ver = ReplyProtocolVer
        /\ \/ Datagrams[k].kind = "version"
           \/ k \in AllPadsRequestIds}

NextErr ==
    \/ StartOnce
    \/ ResumeStart
    \/ \E s \in 1 .. MaxSockets : Listening(s)
    \/ \E c \in ReportCtrl : Install(c)
    \/ \E k \in ErrIds, e \in DOMAIN Endpoints : OnMessage(k, e)
    \/ \E c \in ReportCtrl : Report(c, 0)
    \/ \E s \in 1 .. MaxSockets : SocketError(s)
    \/ \E result \in SendResults : SendDone(result)

SpecErr == Init /\ [][NextErr]_vars

\* start() and stop() called in any order, a start() before an earlier one
\* has resolved included, on a server with controllers and clients
NextLife ==
    \/ start(FALSE)
    \/ stop
    \/ ResumeStart
    \/ \E s \in 1 .. MaxSockets : Listening(s)
    \/ \E s \in 1 .. MaxSockets : BindError(s)
    \/ \E c \in ReportCtrl : Install(c)
    \/ \E k \in AllPadsRequestIds : OnMessage(k, 1)

SpecLife == Init /\ [][NextLife]_vars

Next ==
    \/ NextSlots
    \/ NextApp
    \/ NextMsg
    \/ NextList
    \/ NextReg
    \/ NextSweep
    \/ NextFifo
    \/ NextLife
    \/ NextWire
    \/ NextGone
    \/ NextIdle
    \/ NextFrame
    \/ NextErr

Spec == Init /\ [][Next]_vars


(***************************************************************************)
(* Claims about the controller slot table.                                 *)
(***************************************************************************)
Occupied(ctrls) == {i \in Slots : ctrls[i] # 0}

\* C2: removeController(i) accepts every index 0 <= i < 4: after the call
\* slot i is empty, for i = 0 as for the others.
C2_RemoveAcceptsEverySlot ==
    (last.op = "removeController" /\ last.index.kind = "number"
        /\ last.index.val \in Slots)
    => controllers[last.index.val] = 0

\* C3: removeController() with no argument, and prepareToExit(), leave all
\* four slots empty.
C3_RemoveAllEmptiesTable ==
    (\/ (last.op = "removeController" /\ last.index.kind = "undefined")
     \/ last.op = "resumeExit")
    => Occupied(controllers) = {}

\* the slot table and result the claim describes for addController(c)
LowestEmpty(ctrls) ==
    CHOOSE i \in Occupied(ctrls) \cup {NumSlots} \cup (Slots \ Occupied(ctrls)) :
        /\ i \notin Occupied(ctrls)
        /\ \A j \in Slots \ Occupied(ctrls) : i <= j

\* the first calls of addController fill the slots in the order of the calls
LogFillsSlots ==
    (addLog # << 0 >> /\ last.op = "addController")
    => /\ \A k \in 1 .. Len(addLog) :
            k <= NumSlots => controllers[k - 1] = addLog[k]
       /\ \A i \in Slots : i >= Len(addLog) => controllers[i] = 0
       /\ last.ret = (Len(addLog) <= NumSlots)

\* C4: addController installs the controller in the lowest-numbered empty
\* slot and returns true; it returns false, changing nothing, exactly when
\* all four slots are occupied.  So from an empty table the calls fill
\* slots 0..3 in order and the fifth call returns false.
C4_AddTakesLowestEmptySlot ==
    [][last'.op = "addController" =>
        /\ last'.ret = (Occupied(controllers) # Slots)
        /\ controllers' =
             IF Occupied(controllers) # Slots
             THEN [controllers EXCEPT
                      ![LowestEmpty(controllers)] = last'.controller]
             ELSE controllers
        /\ LogFillsSlots']_vars

\* a fifth consecutive addController on a table that started empty
C4_Witness ==
    /\ last.op = "addController"
    /\ addLog # << 0 >>
    /\ Len(addLog) = NumSlots + 1
    /\ Cardinality({addLog[k] : k \in 1 .. Len(addLog)}) = NumSlots + 1
    /\ ~last.ret

\* C5: no controller handle occupies more than one slot, and at most four
\* slots are occupied.
C5_NoDuplicateHandles ==
    /\ \A i, j \in Slots :
          (i # j /\ controllers[i] # 0) => controllers[i] # controllers[j]
    /\ Cardinality(Occupied(controllers)) <= NumSlots

(***************************************************************************)
(* Claims about inbound datagrams.  After a "message" event, last names    *)
(* the datagram and its sender, out and errors hold what the handler sent  *)
(* and emitted; the slot table and the devices are as the handler saw them.*)
(***************************************************************************)
Received == last.op = "onMessage"

\* the datagram of the latest "message" event
Inbound == Datagrams[last.dgram]

\* C1: the client registry holds at most one subscription per (address,
\* port) pair: a repeated request from the same peer adds no second entry.
C1_OneEntryPerEndpoint ==
    \A i, j \in 1 .. Len(clients) :
        (/\ clients[i].key.address = clients[j].key.address
         /\ clients[i].key.port = clients[j].key.port) => i = j

\* C6: the server sends no datagram in response to an inbound datagram that
\* fails validation.
C6_NoReplyToMalformed ==
    (Received /\ Inbound.fault # "none") => out = << >>

\* C7: every inbound datagram that fails validation causes exactly one error
\* event.
C7_OneErrorPerMalformed ==
    (Received /\ Inbound.fault # "none") => Len(errors) = 1

\* C8: an otherwise valid datagram is accepted (no error; a version request
\* is answered) when it declares a version v <= MaxProtocolVer, and rejected
\* (one error, no reply) when v > MaxProtocolVer.
C8_VersionGate ==
    (Received /\ Inbound.fault \in {"none", "version"})
    => IF Inbound.ver > MaxProtocolVer
       THEN out = << >> /\ Len(errors) = 1
       ELSE errors = << >> /\ (Inbound.kind = "version" => Len(out) = 1)

\* a version request declaring MaxProtocolVer + 1 has been rejected
C8_Witness ==
    /\ Received
    /\ Inbound.fault = "version"
    /\ Inbound.kind = "version"
    /\ Inbound.ver = MaxProtocolVer + 1
    /\ out = << >>
    /\ errors = << "outdated protocol" >>

\* C9: a valid DSUC_VersionReq produces exactly one reply, sent to the
\* requesting endpoint, with body {DSUS_VersionRsp, MaxProtocolVer}, header
\* protocol version 1001 and magic DSUS.
C9_VersionReply ==
    (Received /\ Inbound.kind = "version" /\ Inbound.fault = "none")
    => /\ Len(out) = 1
       /\ out[1].to = Endpoints[last.from]
       /\ Len(out[1].data) = 24
       /\ SubSeq(out[1].data, 1, 4) = ServerMagic
       /\ readUInt16LE(out[1].data, 4) = 1001
       /\ SubSeq(out[1].data, 17, 24)
            = U32LE(DSUS_VersionRsp) \o U32LE(MaxProtocolVer)

\* a version request of an older protocol, from the second endpoint, has
\* been answered
C9_Witness ==
    /\ Received
    /\ Inbound.kind = "version"
    /\ Inbound.fault = "none"
    /\ Inbound.ver < MaxProtocolVer
    /\ last.from = 2
    /\ Len(out) = 1
    /\ out[1].to.port = Endpoints[2].port

\* the requested indices that name an occupied slot whose device is open
\* (dualShockMeta is null exactly when the device is not open)
Reported(pads) ==
    SelectSeq(pads, LAMBDA i : controllers[i] # 0 /\ isOpen[controllers[i]])

\* C10: a valid DSUC_ListPorts request gets one DSUS_PortInfo reply for each
\* requested index whose slot is occupied and whose controller has a
\* non-null dualShockMeta, in the order of the request, and no other reply.
C10_OneReplyPerReportedSlot ==
    (Received /\ Inbound.kind = "list" /\ Inbound.fault = "none")
    => /\ errors = << >>
       /\ Len(out) = Len(Reported(Inbound.pads))
       /\ \A j \in 1 .. Len(out) :
            /\ out[j].to = Endpoints[last.from]
            /\ Len(out[j].data) = 32
            /\ SubSeq(out[j].data, 1, 4) = ServerMagic
            /\ SubSeq(out[j].data, 17, 20) = U32LE(DSUS_PortInfo)
            /\ out[j].data[21]
                 = ControllerId(controllers[Reported(Inbound.pads)[j]])
            /\ SubSeq(out[j].data, 25, 30)
                 = PortInfoMac(ControllerMeta(
                       controllers[Reported(Inbound.pads)[j]]))

\* four indices, the highest first, over four occupied slots, two of them
\* answered: the slots of the controller whose device is closed are passed
\* over
C10_Witness ==
    /\ Received
    /\ Inbound.kind = "list"
    /\ Inbound.fault = "none"
    /\ Len(Inbound.pads) = NumSlots
    /\ Occupied(controllers) = Slots
    /\ Inbound.pads[1] = NumSlots - 1
    /\ Len(out) = 2

(***************************************************************************)
(* Claims about the client registry.                                       *)
(***************************************************************************)
\* the time a subscription holds for a MAC, Never when it holds none
TimeForMac(times, mac) ==
    IF mac \in DOMAIN times.timeForPadByMac THEN times.timeForPadByMac[mac]
    ELSE Never

\* the MAC strings two subscriptions and a request name
MacsOf(times, other, mac) ==
    DOMAIN times.timeForPadByMac \cup DOMAIN other.timeForPadByMac \cup {mac}

\* entry k of the registry after the request is the sender's subscription,
\* stamped as the flags byte of the request says, every other time being
\* what it was (Never in a subscription the request created)
StampedByFlags(k, request, from, before, after, time) ==
    LET flags == request[21]
        idToRegister == request[22]
        mac == CanonicalMac(SubSeq(request, 23, 28))
        prior == IF k <= Len(before) THEN before[k].times
                 ELSE NewClientRequestTimes
        times == after[k].times
    IN  /\ after[k].key.address = Endpoints[from].address
        /\ after[k].key.port = Endpoints[from].port
        /\ times.timeForAllPads
             = IF flags = 0 THEN time ELSE prior.timeForAllPads
        /\ \A i \in Slots :
             times.timeForPadById[i]
               = IF flags % 2 = 1 /\ i = idToRegister THEN time
                 ELSE prior.timeForPadById[i]
        /\ \A m \in MacsOf(times, prior, mac) :
             TimeForMac(times, m)
               = IF (flags \div 2) % 2 = 1 /\ m = mac THEN time
                 ELSE TimeForMac(prior, m)

\* C14: a valid DSUC_PadDataReq stamps to now only the dimensions its flags
\* byte selects (bit 0 the pad idToRegister, bit 1 the MAC, no bit all
\* pads) in the sender's subscription and leaves every other timestamp, and
\* every other subscription, unchanged.
C14_FlagsSelectDimensions ==
    [][(last'.op = "onMessage" /\ Datagrams[last'.dgram].kind = "pad"
            /\ Datagrams[last'.dgram].fault = "none")
       => \E k \in 1 .. Len(clients') :
            /\ StampedByFlags(k, Datagrams[last'.dgram].data, last'.from,
                              clients, clients', now)
            /\ \A j \in 1 .. Len(clients') :
                 j # k => (j <= Len(clients) /\ clients'[j] = clients[j])]_vars

\* the address and port of a registry key or of a datagram's receiver
Peer(endpoint) == [address |-> endpoint.address, port |-> endpoint.port]

\* the interest rule for a subscription, a report's meta and a time t
Interested(times, meta, t) ==
    \/ t - times.timeForAllPads < ClientTimeoutLimit
    \/ t - times.timeForPadById[meta.padId] < ClientTimeoutLimit
    \/ t - TimeForMac(times, meta.macAddress) < ClientTimeoutLimit

\* some timestamp of the subscription is within ClientTimeoutLimit of t
SomeFresh(times, t) ==
    \/ t - times.timeForAllPads < ClientTimeoutLimit
    \/ \E i \in Slots : t - times.timeForPadById[i] < ClientTimeoutLimit
    \/ \E m \in DOMAIN times.timeForPadByMac :
          t - times.timeForPadByMac[m] < ClientTimeoutLimit

\* the latest event is a report that the started server handled once: its
\* controller holds exactly one slot
SweptOnce ==
    /\ last.op = "report"
    /\ socket # 0
    /\ Cardinality({i \in Slots : controllers[i] = last.controller}) = 1

\* the latest event is a report that the started server handled
Swept ==
    /\ last.op = "report"
    /\ socket # 0
    /\ \E i \in Slots : controllers[i] = last.controller

\* C11: clientsFor(meta, now) returns exactly the registered clients that
\* satisfy the interest rule, each once: the datagrams of a report handled
\* once go to the peers with an interested subscription, one to each.
C11_ExactlyTheInterested ==
    [][SweptOnce' =>
        LET meta == ControllerMeta(last'.controller)
            interested ==
                {Peer(clients[k].key) : k \in
                    {j \in 1 .. Len(clients) :
                        Interested(clients[j].times, meta, now)}}
        IN  /\ {out'[k].to : k \in 1 .. Len(out')} = interested
            /\ \A p \in interested :
                 Cardinality({k \in 1 .. Len(out') : out'[k].to = p}) = 1]_vars

\* C12: a sweep removes a client if and only if none of its timestamps is
\* within ClientTimeoutLimit of now: the registry after a handled report is
\* the registry before it without the clients that have no such timestamp.
C12_SweepEvictsExactlyTheExpired ==
    [][Swept' =>
        clients' = SelectSeq(clients, LAMBDA c : SomeFresh(c.times, now))]_vars

\* a sweep has removed a client and kept another that did not receive the
\* report
C12_Witness ==
    /\ Swept
    /\ last.deleted >= 1
    /\ \E k \in 1 .. Len(clients) :
          \A j \in 1 .. Len(out) : out[j].to # Peer(clients[k].key)

\* C13 as claimed: in every reachable state every client in the registry has
\* a timestamp within ClientTimeoutLimit of now.
C13_EveryClientFresh ==
    \A k \in 1 .. Len(clients) : SomeFresh(clients[k].times, now)

\* C13 as amended: right after a sweep every client in the registry has a
\* timestamp within ClientTimeoutLimit of now.
C13_EveryClientFreshAfterSweep ==
    Swept => \A k \in 1 .. Len(clients) : SomeFresh(clients[k].times, now)

\* a sweep at a time when a subscription has run out has left a client in
\* the registry
C13_Witness ==
    /\ Swept
    /\ last.deleted >= 1
    /\ now = MaxTime
    /\ clients # << >>

\* the registry entries of endpoint e
EntriesOf(e) ==
    {k \in 1 .. Len(clients) : Peer(clients[k].key) = Peer(Endpoints[e])}

\* a subscription that only requests with registration flags 0 have stamped
AllPadsOnly(times) ==
    /\ \A i \in Slots : times.timeForPadById[i] = Never
    /\ DOMAIN times.timeForPadByMac = {}

\* a 100-byte DSUS_PadDataRsp datagram
IsPadDataRsp(data) ==
    /\ Len(data) = 100
    /\ SubSeq(data, 1, 4) = ServerMagic
    /\ SubSeq(data, 17, 20) = U32LE(DSUS_PadDataRsp)

\* C15: a report of an installed controller is forwarded as a
\* DSUS_PadDataRsp to every client whose latest request with registration
\* flags 0 is less than ClientTimeoutLimit old, and to no client that only
\* sent such requests, the latest ClientTimeoutLimit or more ago.
C15_AllPadsWithinTimeout ==
    [][Swept' =>
        \A e \in DOMAIN Endpoints :
            /\ (\E k \in EntriesOf(e) :
                    now - clients[k].times.timeForAllPads < ClientTimeoutLimit)
               => \E j \in 1 .. Len(out') :
                      /\ out'[j].to = Peer(Endpoints[e])
                      /\ IsPadDataRsp(out'[j].data)
            /\ (/\ EntriesOf(e) # {}
                /\ \A k \in EntriesOf(e) :
                      /\ AllPadsOnly(clients[k].times)
                      /\ now - clients[k].times.timeForAllPads
                           >= ClientTimeoutLimit)
               => \A j \in 1 .. Len(out') : out'[j].to # Peer(Endpoints[e])]_vars

\* a report, some time after the requests, has been forwarded to one client
\* while the subscription of another had run out
C15_Witness ==
    /\ Swept
    /\ now > 0
    /\ last.deleted >= 1
    /\ Len(out) >= 1
    /\ IsPadDataRsp(out[1].data)
    /\ \E e \in DOMAIN Endpoints :
          \A j \in 1 .. Len(out) : out[j].to # Peer(Endpoints[e])

\* some subscription of endpoint e satisfies the interest rule for meta
EndpointInterested(e, meta) ==
    \E k \in EntriesOf(e) : Interested(clients[k].times, meta, now)

\* C16: for each controller report handled while the server is started,
\* every interested client endpoint receives exactly one pad-data datagram,
\* all recipients receive byte-identical datagrams, and no datagram goes to
\* an endpoint that is not interested.
C16_OneIdenticalDatagramEach ==
    [][Swept' =>
        /\ \A e \in DOMAIN Endpoints :
             Cardinality({j \in 1 .. Len(out') : out'[j].to = Peer(Endpoints[e])})
               = IF EndpointInterested(e, ControllerMeta(last'.controller))
                 THEN 1 ELSE 0
        /\ \A j \in 1 .. Len(out') :
             /\ IsPadDataRsp(out'[j].data)
             /\ out'[j].data = out'[1].data]_vars

\* C17: the padId of an outbound datagram is the slot index of the
\* controller it describes: a pad-data datagram of a report carries the
\* index of a slot that holds the reporting controller, and the
\* DSUS_PortInfo reply for requested index i carries i.
C17_PadIdIsSlotIndex ==
    /\ Swept =>
         \A j \in 1 .. Len(out) :
            /\ out[j].data[21] \in Slots
            /\ controllers[out[j].data[21]] = last.controller
    /\ (Received /\ Inbound.kind = "list" /\ Inbound.fault = "none") =>
         \A j \in 1 .. Len(out) :
            out[j].data[21] = Reported(Inbound.pads)[j]

(***************************************************************************)
(* Claims about the order of the datagrams sent.                           *)
(***************************************************************************)
\* C18: the pad-data datagrams sent to one client for one controller are
\* sent in the order in which the controller emitted the reports, whatever
\* the reports of other controllers and the requests in between: of two
\* such datagrams the later sent never carries the earlier packet counter.
C18_FifoPerController ==
    \A i, j \in 1 .. Len(delivered) :
        (/\ i < j
         /\ delivered[i].to = delivered[j].to
         /\ delivered[i].padId = delivered[j].padId)
        => delivered[i].packetCounter <= delivered[j].packetCounter

\* two reports of one controller have reached a client in order, with a
\* datagram of the other controller sent in between
C18_Witness ==
    \E i, j, k \in 1 .. Len(delivered) :
        /\ i < k /\ k < j
        /\ delivered[i].to = delivered[j].to
        /\ delivered[i].padId = delivered[j].padId
        /\ delivered[k].padId # delivered[i].padId
        /\ delivered[i].packetCounter = 0
        /\ delivered[j].packetCounter = 1

(***************************************************************************)
(* Claims about start() and stop().                                        *)
(***************************************************************************)
\* C19: stop() is idempotent: on a server that has no socket (never
\* started, or stopped before) it succeeds and leaves the socket, the slot
\* table and the client registry unchanged; on a started server it leaves
\* the server with no socket, the socket it had being closed.
C19_StopIdempotent ==
    [][last'.op = "stop" =>
        /\ socket' = 0
        /\ errors' = << >>
        /\ controllers' = controllers
        /\ clients' = clients
        /\ IF socket = 0
           THEN socks' = socks
           ELSE /\ socks'[socket].state = "closed"
                /\ socks'[socket].onMessage = 0
                /\ \A s \in 1 .. MaxSockets : s # socket => socks'[s] = socks[s]]_vars

\* stop() has been called on a server that was stopped before and that
\* holds a controller and a client
C19_Witness ==
    /\ last.op = "stop"
    /\ last.had = 0
    /\ \E s \in 1 .. MaxSockets : socks[s].state = "closed"
    /\ Occupied(controllers) # {}
    /\ clients # << >>

\* C20: under any interleaving of start() and stop() calls the server owns
\* at most one open socket: every socket it created other than the current
\* one has been closed, and the current socket, once listening, has the
\* inbound-message handler attached exactly once.
C20_OneOpenSocket ==
    /\ \A s \in 1 .. MaxSockets :
          socks[s].state \in {"binding", "listening"} => s = socket
    /\ \A s \in 1 .. MaxSockets :
          socks[s].onMessage = (IF s = socket /\ socks[s].state = "listening"
                                THEN 1 ELSE 0)

(***************************************************************************)
(* Claims about the bytes of the datagrams.                                *)
(***************************************************************************)
\* the report whose datagrams the latest event sent
LastReport == DeviceReport(last.controller, last.counter)

\* C23 as claimed: in every pad-data datagram byte 56 is a reserved zero
\* byte, touch #1 isActive is at byte 57, touch #1 id at byte 58, touch #2
\* isActive at byte 63 and the motion timestamp low word starts at byte 69.
C23_ReservedByteBeforeTouch ==
    Swept =>
        \A j \in 1 .. Len(out) :
            /\ out[j].data[56 + 1] = 0
            /\ out[j].data[57 + 1] = Flag(LastReport.trackPad.first.isActive)
            /\ out[j].data[58 + 1] = LastReport.trackPad.first.id
            /\ out[j].data[63 + 1] = Flag(LastReport.trackPad.second.isActive)
            /\ SubSeq(out[j].data, 69 + 1, 72 + 1)
                 = U32LE(LastReport.motionTimestamp.low)

\* C23 as amended: every pad-data datagram has 100 bytes, the touch fields
\* follow trigger L2 at byte 55 with no byte in between: touch #1 isActive
\* is at byte 56, touch #1 id at byte 57, touch #2 isActive at byte 62 and
\* the motion timestamp low word starts at byte 68.
C23_TouchFollowsTrigger ==
    Swept =>
        \A j \in 1 .. Len(out) :
            /\ Len(out[j].data) = 100
            /\ out[j].data[55 + 1] = LastReport.trigger.L2
            /\ out[j].data[56 + 1] = Flag(LastReport.trackPad.first.isActive)
            /\ out[j].data[57 + 1] = LastReport.trackPad.first.id
            /\ out[j].data[62 + 1] = Flag(LastReport.trackPad.second.isActive)
            /\ SubSeq(out[j].data, 68 + 1, 71 + 1)
                 = U32LE(LastReport.motionTimestamp.low)

\* a second report of the controller whose second touch is active has been
\* sent
C23_Witness ==
    /\ Swept
    /\ last.counter = 1
    /\ LastReport.trackPad.second.isActive
    /\ Len(out) >= 1
    /\ out[1].data[62 + 1] = 1

\* CRC32(D with bytes 8..11 set to 0) is the little-endian word in D[8..11]
CrcHolds(data) ==
    /\ Len(data) >= 12
    /\ crc32(WriteAt(data, 8, U32LE(0))) = SubSeq(data, 9, 12)

\* C22: every outbound datagram (version reply, port-info reply, pad data)
\* starts with the magic DSUS and carries the CRC32 of itself with bytes
\* 8..11 zeroed in bytes 8..11; and an inbound datagram is processed (gets a
\* reply, or changes the client registry) only if its received CRC
\* satisfies the same relation.
C22_ChecksumOutAndIn ==
    [][/\ \A j \in 1 .. Len(out') :
            /\ SubSeq(out'[j].data, 1, 4) = ServerMagic
            /\ CrcHolds(out'[j].data)
       /\ (last'.op = "onMessage" /\ (out' # << >> \/ clients' # clients))
            => CrcHolds(Datagrams[last'.dgram].data)]_vars

\* a pad-data datagram has been sent to a client whose request had a sound
\* checksum
C22_Witness ==
    /\ Swept
    /\ Len(out) >= 1
    /\ IsPadDataRsp(out[1].data)
    /\ CrcHolds(out[1].data)
    /\ Len(clients) = 1

\* the six MAC bytes of a DSUC_PadDataReq
RequestMac(data) == SubSeq(data, 23, 28)

\* C24: for every 6-byte MAC in a DSUC_PadDataReq the subscription key is
\* the canonical string of six two-digit lowercase hex octets joined by
\* ':': after a valid request that registers by MAC the sender's
\* subscription holds a time for that string, which is the macAddress of the
\* controller with the same six bytes.
C24_CanonicalMacKey ==
    (/\ Received
     /\ Inbound.kind = "pad"
     /\ Inbound.fault = "none"
     /\ (Inbound.data[21] \div 2) % 2 = 1)
    => \E k \in 1 .. Len(clients) :
          /\ Peer(clients[k].key) = Peer(Endpoints[last.from])
          /\ CanonicalMac(RequestMac(Inbound.data))
                \in DOMAIN clients[k].times.timeForPadByMac
          /\ \A c \in Ctrl :
                (ControllerMac(c) = CanonicalMac(RequestMac(Inbound.data)))
                => ControllerMac(c) \in DOMAIN clients[k].times.timeForPadByMac

(***************************************************************************)
(* Claims about the subscriptions to a controller.                         *)
(***************************************************************************)
\* C25: the reports and errors of a controller are forwarded only while it
\* occupies a slot: a report of a controller that holds no slot causes no
\* datagram and leaves the registry alone, an error of it reaches no
\* subscriber of the server's error stream; the error of a controller that
\* holds a slot does.
C25_ForwardedOnlyWhileInstalled ==
    [][last'.op \in {"report", "controllerError"} =>
        IF \A i \in Slots : controllers[i] # last'.controller
        THEN out' = << >> /\ errors' = << >> /\ clients' = clients
        ELSE last'.op = "controllerError" => errors' # << >>]_vars

\* a controller whose slot removeController had emptied has reported to a
\* started server with a client, and nothing was sent
C25_Witness ==
    /\ last.op = "report"
    /\ last.controller \in released
    /\ \A i \in Slots : controllers[i] # last.controller
    /\ socket # 0
    /\ clients # << >>
    /\ out = << >>

\* the server is not started: it has no socket (no start() yet, or stop()
\* came last), or the bind of its latest start() failed
NotStarted == socket = 0 \/ socks[socket].state = "failed"

\* C26: pad-data datagrams are sent only while the server is started: a
\* report that arrives before any start(), after stop() or after a start()
\* whose bind failed causes no send and does not modify the client
\* registry.
C26_NoSendUnlessStarted ==
    [][(last'.op = "report" /\ NotStarted) =>
        (out' = << >> /\ clients' = clients)]_vars

(***************************************************************************)
(* Claims about what a datagram may change.                                *)
(***************************************************************************)
\* C27: an inbound datagram changes the client registry only when it is a
\* valid DSUC_PadDataReq, and then only subscriptions of the sender; a
\* malformed datagram, a DSUC_VersionReq, a DSUC_ListPorts or a message of
\* unknown type leaves the registry unchanged; no datagram changes the slot
\* table; and a valid version request is answered whatever came before.
C27_OnlyPadRequestsChangeRegistry ==
    [][last'.op = "onMessage" =>
        /\ controllers' = controllers
        /\ IF /\ Datagrams[last'.dgram].kind = "pad"
              /\ Datagrams[last'.dgram].fault = "none"
           THEN /\ Len(clients') >= Len(clients)
                /\ \A k \in 1 .. Len(clients') :
                     \/ k <= Len(clients) /\ clients'[k] = clients[k]
                     \/ Peer(clients'[k].key) = Peer(Endpoints[last'.from])
           ELSE clients' = clients
        /\ (/\ Datagrams[last'.dgram].kind = "version"
            /\ Datagrams[last'.dgram].fault = "none") => Len(out') = 1]_vars

\* a malformed datagram has been handled by a server that holds a
\* controller and the subscriptions of two peers
C27_Witness ==
    /\ Received
    /\ Inbound.fault \in {"crc", "short", "magic"}
    /\ Occupied(controllers) # {}
    /\ Len(clients) = 2
    /\ Peer(clients[1].key) # Peer(clients[2].key)
    /\ out = << >>

(***************************************************************************)
(* Claims about AppServer.                                                 *)
(***************************************************************************)
\* C28: when the controller master reports a controller as removed,
\* AppServer releases the slot the controller occupied, so a controller
\* reported as added while at most four are plugged in is installed
\* (addController returns true).
C28_RemovedControllerFreesSlot ==
    /\ (last.op = "listChange" /\ last.removed)
         => \A i \in Slots : controllers[i] # last.controller
    /\ (last.op = "listChange" /\ ~last.removed
          /\ Cardinality(listed) <= NumSlots)
         => last.installed

(***************************************************************************)
(* Claims about errors at run time.                                        *)
(***************************************************************************)
\* the socket of the latest start() is listening with its handlers attached
Serving ==
    socket # 0 /\ socks[socket].state = "listening" /\ socks[socket].onMessage = 1

\* C21: a socket error, a send error or a short send after a successful
\* start is emitted once on the error stream and does not stop the server:
\* the socket, the slot table and the registry stay as they are, and valid
\* requests and reports are served in every state the server is in
\* afterwards.
C21_ErrorsDoNotStopServer ==
    [][/\ (Serving /\ last'.op = "socketError") =>
            (Len(errors') = 1 /\ Serving'
             /\ socket' = socket /\ socks' = socks
             /\ controllers' = controllers /\ clients' = clients)
       /\ (Serving /\ last'.op = "sendDone") =>
            /\ Len(errors') = (IF last'.result = "sent" THEN 0 ELSE 1)
            /\ Serving'
            /\ socket' = socket /\ socks' = socks
            /\ controllers' = controllers /\ clients' = clients
       /\ (Serving /\ last'.op = "onMessage"
             /\ Datagrams[last'.dgram].kind = "version") => Len(out') = 1
       /\ (Serving /\ last'.op = "report"
             /\ (\E i \in Slots : controllers[i] = last'.controller)
             /\ \E k \in 1 .. Len(clients) :
                   now - clients[k].times.timeForAllPads < ClientTimeoutLimit)
            => out' # << >>]_vars

\* a short send has been reported while the server goes on listening with
\* its controller installed and its client registered
C21_Witness ==
    /\ last.op = "sendDone"
    /\ last.result = "short"
    /\ errors = << "failed to completely send all of buffer" >>
    /\ Serving
    /\ clients # << >>
    /\ Occupied(controllers) # {}

=============================================================================
